---- MODULE Spec2Model ----
(***************************************************************************)
(* Adafruit LTR390 UV / ambient light sensor driver.                       *)
(*                                                                         *)
(* The driver (Adafruit_LTR390.cpp, Adafruit_LTR390.h) talks to a sensor   *)
(* over a two-wire bus through a bus device, a register accessor and a     *)
(* bitfield accessor.  The repository holds two translation units that     *)
(* define the driver's methods: src/Adafruit_LTR390.cpp and                *)
(* src/unnamed/part_001.  They differ in reset() (part_001 has no bus      *)
(* close/reopen) and in getGain() (part_001 has no return statement); the  *)
(* variable `unit` says which of the two was built.                        *)
(*                                                                         *)
(* Every public method is one action, but for readALS() and readUVS(),    *)
(* which only read the data registers.  The bus transactions a call makes  *)
(* are recorded, in order, in last.log.                                    *)
(***************************************************************************)
EXTENDS Integers, Sequences, FiniteSets, TLC

(***************************************************************************)
(* Register map (Adafruit_LTR390.h)                                        *)
(***************************************************************************)
LTR390_I2CADDR_DEFAULT == 83
LTR390_MAIN_CTRL == 0
LTR390_MEAS_RATE == 4
LTR390_GAIN == 5
LTR390_PART_ID == 6
LTR390_MAIN_STATUS == 7
LTR390_INT_CFG == 25
LTR390_INT_PST == 26
LTR390_THRESH_UP == 33
LTR390_THRESH_LOW == 36

LTR390_MODE_ALS == 0
LTR390_MODE_UVS == 1

\* the two translation units that define the driver's methods
CurrentUnit == "Adafruit_LTR390.cpp"
LegacyUnit == "part_001"
Units == {CurrentUnit, LegacyUnit}

\* the constructor initializes no member: each pointer holds an indeterminate
\* value, the null pointer (0) or a pointer to no object of the heap (-1)
Uninitialized == {0, -1}

(***************************************************************************)
(* Bounds of the model                                                     *)
(***************************************************************************)
\* begin() allocates and never frees: the number of begin() calls is capped
MaxBegin == 2
\* at most this many bus transactions of one call fail
MaxFaults == 1

\* what the part-id register of the simulated device can hold
PartIds == {178, 43}
\* the initial contents of every other device register byte
InitBytes == {165}
\* what a register read yields to its caller when the transaction fails:
\* every bit of the register's width 0, or every bit 1
ReadErrorValues == {0, 1}
\* what a function that falls off its end without a return can yield
IndeterminateValues == 0..7
\* thresholds handed to setThresholds
ThreshInputs == {100, 500000, 1048575}
\* persistence counts handed to configInterrupt
PersistInputs == {0, 2, 18}
\* arguments of setGain, setResolution and setMode
FieldInputs == {0, 5, 7, 8, 13}

VARIABLES
    unit,          \* the translation unit that was built
    mem,           \* the device's registers: address -> byte
    clears,        \* the device clears its soft-reset bit after a reset
    opened,        \* the bus devices whose connection is open
    heap,          \* the objects allocated with new: <<kind, id>>
    i2c_dev,       \* Adafruit_LTR390::i2c_dev
    StatusReg,     \* Adafruit_LTR390::StatusReg
    DataReadyBit,  \* Adafruit_LTR390::DataReadyBit
    last           \* the last call: its name, arguments, result and bus log

vars == <<unit, mem, clears, opened, heap, i2c_dev, StatusReg, DataReadyBit, last>>

Addrs ==
    {LTR390_MAIN_CTRL, LTR390_MEAS_RATE, LTR390_GAIN, LTR390_PART_ID,
     LTR390_MAIN_STATUS, LTR390_INT_CFG, LTR390_INT_PST}
    \cup (LTR390_THRESH_UP .. LTR390_THRESH_UP + 2)
    \cup (LTR390_THRESH_LOW .. LTR390_THRESH_LOW + 2)

B2I(b) == IF b THEN 1 ELSE 0

(***************************************************************************)
(* Bit arithmetic on unsigned values                                       *)
(***************************************************************************)
\* (v >> shift) & ((1 << bits) - 1)
Field(v, bits, shift) == (v \div (2 ^ shift)) % (2 ^ bits)

\* v with the field cleared and (data & mask) << shift or-ed in
SetField(v, bits, shift, data) ==
    v - Field(v, bits, shift) * (2 ^ shift) + (data % (2 ^ bits)) * (2 ^ shift)

(***************************************************************************)
(* The simulated device                                                    *)
(***************************************************************************)
\* the bytes of `value` on the wire, in transmission order
Encode(value, width, order) ==
    [i \in 0 .. width - 1 |->
        IF order = "LSBFIRST"
        THEN (value \div (256 ^ i)) % 256
        ELSE (value \div (256 ^ (width - 1 - i))) % 256]

\* the value of `width` register bytes starting at addr
RECURSIVE Decode(_, _, _, _)
Decode(m, addr, width, order) ==
    IF width = 0 THEN 0
    ELSE IF order = "LSBFIRST"
         THEN m[addr] + 256 * Decode(m, addr + 1, width - 1, order)
         ELSE m[addr] * (256 ^ (width - 1)) + Decode(m, addr + 1, width - 1, order)

\* the device takes `width` bytes at addr; a 1 in the soft-reset bit of the
\* main control register resets the device, which then clears the register
\* (or, on a device that never clears the bit, keeps it)
DeviceWrite(m, clr, addr, width, bytes) ==
    LET m1 == [a \in DOMAIN m |->
                  IF a \in addr .. addr + width - 1 THEN bytes[a - addr] ELSE m[a]]
    IN IF addr = LTR390_MAIN_CTRL /\ Field(m1[LTR390_MAIN_CTRL], 1, 4) = 1 /\ clr
       THEN [m1 EXCEPT ![LTR390_MAIN_CTRL] = 0]
       ELSE m1

(***************************************************************************)
(* Bus device, register accessor, bitfield accessor.                       *)
(* s  = [mem, opened, log, val]: the world a call threads through          *)
(* cx = [dev, clr, f, errv]: the bus device used, the device's behaviour   *)
(*      and this call's failing transactions: <<step, "fail">> is a        *)
(*      transaction that does not take place, <<step, "lost">> a write     *)
(*      that the device takes and whose acknowledgment is lost             *)
(***************************************************************************)
Ev(kind, addr, val, outcome) == <<kind, addr, val, outcome>>

I2CDevice_begin(s, cx, step) ==
    IF <<step, "fail">> \in cx.f
    THEN [s EXCEPT !.log = Append(@, Ev("open", 0, 0, "fail")), !.val = 0]
    ELSE [s EXCEPT !.opened = @ \cup {cx.dev},
                   !.log = Append(@, Ev("open", 0, 0, "ok")), !.val = 1]

I2CDevice_end(s, cx) ==
    [s EXCEPT !.opened = @ \ {cx.dev}, !.log = Append(@, Ev("close", 0, 0, "ok"))]

Delay(s, ms) == [s EXCEPT !.log = Append(@, Ev("delay", 0, ms, "ok"))]

Register_read(s, cx, addr, width, order, step) ==
    LET failed == <<step, "fail">> \in cx.f \/ cx.dev \notin s.opened
        v == IF failed THEN cx.errv * (256 ^ width - 1) ELSE Decode(s.mem, addr, width, order)
    IN [s EXCEPT !.log = Append(@, Ev("read", addr, v, IF failed THEN "fail" ELSE "ok")),
                 !.val = v]

Register_write(s, cx, addr, width, order, value, step) ==
    LET failed == <<step, "fail">> \in cx.f \/ cx.dev \notin s.opened
        wire == value % (256 ^ width)
        out == IF failed THEN "fail" ELSE IF <<step, "lost">> \in cx.f THEN "lost" ELSE "ok"
    IN [s EXCEPT !.log = Append(@, Ev("write", addr, wire, out)),
                 !.mem = IF failed THEN @
                         ELSE DeviceWrite(@, cx.clr, addr, width, Encode(wire, width, order))]

RegisterBits_read(s, cx, addr, bits, shift, step) ==
    LET r == Register_read(s, cx, addr, 1, "LSBFIRST", step)
    IN [r EXCEPT !.val = Field(r.val, bits, shift)]

RegisterBits_write(s, cx, addr, bits, shift, data, rstep, wstep) ==
    LET r == Register_read(s, cx, addr, 1, "LSBFIRST", rstep)
    IN Register_write(r, cx, addr, 1, "LSBFIRST", SetField(r.val, bits, shift, data), wstep)

(***************************************************************************)
(* The driver's methods as functions of the world                          *)
(***************************************************************************)
World == [mem |-> mem, opened |-> opened, log |-> <<>>, val |-> 0]

Ctx(dev, f, errv) ==
    [dev |-> dev, clr |-> clears, f |-> f, errv |-> errv]

\* Adafruit_LTR390::reset, the bus recovery of the current unit
reset_recover(s, cx) ==
    IF unit = CurrentUnit
    THEN I2CDevice_begin(I2CDevice_end(s, cx), cx, "reopen")
    ELSE s

\* reset() with the test of the re-read bit inverted
reset_Inverted(s, cx) ==
    LET s1 == RegisterBits_write(s, cx, LTR390_MAIN_CTRL, 1, 4, 1, "rstRmwRead", "rstWrite")
        s2 == Delay(s1, 10)
        s3 == reset_recover(s2, cx)
        s4 == RegisterBits_read(s3, cx, LTR390_MAIN_CTRL, 1, 4, "rstReread")
    IN [s4 EXCEPT !.val = IF s4.val # 0 THEN 1 ELSE 0]

\* Adafruit_LTR390::reset; val is the result (1 = true)
reset(s, cx) ==
    LET s1 == RegisterBits_write(s, cx, LTR390_MAIN_CTRL, 1, 4, 1, "rstRmwRead", "rstWrite")
        s2 == Delay(s1, 10)
        s3 == reset_recover(s2, cx)
        s4 == RegisterBits_read(s3, cx, LTR390_MAIN_CTRL, 1, 4, "rstReread")
    IN [s4 EXCEPT !.val = IF s4.val # 0 THEN 0 ELSE 1]

\* Adafruit_LTR390::enable
enable(s, cx, en) ==
    RegisterBits_write(s, cx, LTR390_MAIN_CTRL, 1, 1, B2I(en), "enRmwRead", "enWrite")

\* Adafruit_LTR390::enabled; val is the result (1 = true)
enabled(s, cx) ==
    LET r == RegisterBits_read(s, cx, LTR390_MAIN_CTRL, 1, 1, "enReadback")
    IN [r EXCEPT !.val = B2I(r.val # 0)]

\* the part-id test with the low four bits taken for the top four
PartIdOk_LowNibble(v) == (v % 16) = 11

\* (idreg.read() >> 4) != 0xB fails begin()
PartIdOk(v) == (v \div 16) = 11

\* begin() without the test of the enable bit read back
begin_NoReadbackTest(s, cx) ==
    LET s1 == I2CDevice_begin(s, cx, "open")
        s2 == Register_read(s1, cx, LTR390_PART_ID, 1, "LSBFIRST", "idRead")
        s3 == reset(s2, cx)
        s4 == enable(s3, cx, TRUE)
        s5 == enabled(s4, cx)
    IN IF s1.val = 0 THEN [s1 EXCEPT !.val = 0]
       ELSE IF ~PartIdOk(s2.val) THEN [s2 EXCEPT !.val = 0]
       ELSE IF s3.val = 0 THEN [s3 EXCEPT !.val = 0]
       ELSE [s5 EXCEPT !.val = 1]

\* Adafruit_LTR390::begin up to its return; val is the result (1 = true)
begin(s, cx) ==
    LET s1 == I2CDevice_begin(s, cx, "open")
        s2 == Register_read(s1, cx, LTR390_PART_ID, 1, "LSBFIRST", "idRead")
        s3 == reset(s2, cx)
        s4 == enable(s3, cx, TRUE)
        s5 == enabled(s4, cx)
    IN IF s1.val = 0 THEN [s1 EXCEPT !.val = 0]
       ELSE IF ~PartIdOk(s2.val) THEN [s2 EXCEPT !.val = 0]
       ELSE IF s3.val = 0 THEN [s3 EXCEPT !.val = 0]
       ELSE IF s5.val = 0 THEN [s5 EXCEPT !.val = 0]
       ELSE [s5 EXCEPT !.val = 1]

\* Adafruit_LTR390::setMode
setMode(s, cx, mode) ==
    RegisterBits_write(s, cx, LTR390_MAIN_CTRL, 1, 3, mode, "rmwRead", "rmwWrite")

\* Adafruit_LTR390::getMode
getMode(s, cx) == RegisterBits_read(s, cx, LTR390_MAIN_CTRL, 1, 3, "read")

\* Adafruit_LTR390::setGain
setGain(s, cx, gain) ==
    RegisterBits_write(s, cx, LTR390_GAIN, 3, 0, gain, "rmwRead", "rmwWrite")

\* Adafruit_LTR390::getGain of the current unit
getGain(s, cx) == RegisterBits_read(s, cx, LTR390_GAIN, 3, 0, "read")

\* setResolution() writing the whole rate register instead of its bits 4-6
setResolution_WholeRegister(s, cx, res) ==
    Register_write(s, cx, LTR390_MEAS_RATE, 1, "LSBFIRST", (res % 8) * 16, "rmwWrite")

\* Adafruit_LTR390::setResolution
setResolution(s, cx, res) ==
    RegisterBits_write(s, cx, LTR390_MEAS_RATE, 3, 4, res, "rmwRead", "rmwWrite")

\* Adafruit_LTR390::getResolution
getResolution(s, cx) == RegisterBits_read(s, cx, LTR390_MEAS_RATE, 3, 4, "read")

\* setThresholds() with the two registers swapped
setThresholds_Swapped(s, cx, lower, higher) ==
    LET s1 == Register_write(s, cx, LTR390_THRESH_UP, 3, "LSBFIRST", lower, "lowWrite")
    IN Register_write(s1, cx, LTR390_THRESH_LOW, 3, "LSBFIRST", higher, "upWrite")

\* Adafruit_LTR390::setThresholds
setThresholds(s, cx, lower, higher) ==
    LET s1 == Register_write(s, cx, LTR390_THRESH_LOW, 3, "LSBFIRST", lower, "lowWrite")
    IN Register_write(s1, cx, LTR390_THRESH_UP, 3, "LSBFIRST", higher, "upWrite")

\* configInterrupt() writing the value of the enumeration as the source bits
configInterrupt_RawSource(s, cx, en, source, persistance) ==
    LET s1 == RegisterBits_write(s, cx, LTR390_INT_CFG, 1, 2, B2I(en), "intEnRead", "intEnWrite")
        s2 == RegisterBits_write(s1, cx, LTR390_INT_CFG, 2, 4, source, "srcRead", "srcWrite")
    IN RegisterBits_write(s2, cx, LTR390_INT_PST, 4, 4, persistance, "pstRead", "pstWrite")

\* Adafruit_LTR390::configInterrupt
configInterrupt(s, cx, en, source, persistance) ==
    LET s1 == RegisterBits_write(s, cx, LTR390_INT_CFG, 1, 2, B2I(en), "intEnRead", "intEnWrite")
        s2 == IF source = LTR390_MODE_ALS
              THEN RegisterBits_write(s1, cx, LTR390_INT_CFG, 2, 4, 1, "srcRead", "srcWrite")
              ELSE s1
        s3 == IF source = LTR390_MODE_UVS
              THEN RegisterBits_write(s2, cx, LTR390_INT_CFG, 2, 4, 3, "srcRead", "srcWrite")
              ELSE s2
    IN RegisterBits_write(s3, cx, LTR390_INT_PST, 4, 4, persistance, "pstRead", "pstWrite")

(***************************************************************************)
(* The transactions of each call, and the outcomes a call can meet         *)
(***************************************************************************)
ResetSteps == {"rstRmwRead", "rstWrite", "reopen", "rstReread"}
EnableSteps == {"enRmwRead", "enWrite"}
EnabledSteps == {"enReadback"}
BeginSteps == {"open", "idRead"} \cup ResetSteps \cup EnableSteps \cup EnabledSteps
ReadSteps == {"read"}

\* the write whose acknowledgment the device can drop: it resets mid-transaction
LostAcks == {<<"rstWrite", "lost">>}

Faults(steps) ==
    {f \in SUBSET ((steps \X {"fail"}) \cup {l \in LostAcks : l[1] \in steps}) :
        /\ Cardinality(f) <= MaxFaults
        /\ \A x \in f, y \in f : x[1] = y[1] => x = y}

BeginFaults == Faults(BeginSteps)
ResetFaults == Faults(ResetSteps)
ReadFaults == Faults(ReadSteps)

Call(op, arg, s, cx) ==
    [op |-> op, arg |-> arg, ret |-> s.val, log |-> s.log]

NewId == Cardinality(heap) + 1
Devices == {o \in heap : o[1] = "I2CDevice"}

\* the begin() that made the current bus device returned true: nothing but
\* begin() is called before that
Ready == i2c_dev \notin Uninitialized /\ DataReadyBit = i2c_dev + 2

(***************************************************************************)
(* State machine.  begin(), reset() and newDataAvailable() meet bus        *)
(* faults; the configuration calls are made on a faithful device, whose    *)
(* transactions all take place.                                            *)
(***************************************************************************)
Init ==
    /\ unit \in Units
    /\ clears \in BOOLEAN
    /\ \E id \in PartIds, bg \in InitBytes :
          mem = [a \in Addrs |-> IF a = LTR390_PART_ID THEN id ELSE bg]
    /\ opened = {}
    /\ heap = {}
    /\ i2c_dev \in Uninitialized
    /\ StatusReg \in Uninitialized
    /\ DataReadyBit \in Uninitialized
    /\ last = [op |-> "none", arg |-> <<>>, ret |-> 0, log |-> <<>>]

\* the handle after a begin() without bus faults on a matching device that
\* clears its soft-reset bit
InitReady ==
    /\ unit \in Units
    /\ clears = TRUE
    /\ \E id \in {i \in PartIds : PartIdOk(i)}, bg \in InitBytes :
          LET m0 == [a \in Addrs |-> IF a = LTR390_PART_ID THEN id ELSE bg]
              cx == [dev |-> 1, clr |-> TRUE, f |-> {}, errv |-> 0]
              r == begin([mem |-> m0, opened |-> {}, log |-> <<>>, val |-> 0], cx)
          IN /\ mem = r.mem
             /\ opened = r.opened
             /\ last = Call("begin", <<>>, r, cx)
    /\ heap = {<<"I2CDevice", 1>>, <<"I2CRegister", 2>>, <<"I2CRegisterBits", 3>>}
    /\ i2c_dev = 1
    /\ StatusReg = 2
    /\ DataReadyBit = 3

\* bool Adafruit_LTR390::begin(TwoWire *theWire)
Begin ==
    /\ Cardinality(Devices) < MaxBegin
    /\ \E f \in BeginFaults, errv \in ReadErrorValues :
          LET dev == NewId
              cx == Ctx(dev, f, errv)
              r == begin(World, cx)
          IN /\ i2c_dev' = dev
             /\ mem' = r.mem
             /\ opened' = r.opened
             /\ last' = Call("begin", <<>>, r, cx)
             /\ IF r.val = 1
                THEN /\ StatusReg' = dev + 1
                     /\ DataReadyBit' = dev + 2
                     /\ heap' = heap \cup {<<"I2CDevice", dev>>,
                                           <<"I2CRegister", dev + 1>>,
                                           <<"I2CRegisterBits", dev + 2>>}
                ELSE /\ heap' = heap \cup {<<"I2CDevice", dev>>}
                     /\ UNCHANGED <<StatusReg, DataReadyBit>>
    /\ UNCHANGED <<unit, clears>>

\* bool Adafruit_LTR390::reset(void)
Reset ==
    /\ Ready
    /\ \E f \in ResetFaults, errv \in ReadErrorValues :
          LET cx == Ctx(i2c_dev, f, errv)
              r == reset(World, cx)
          IN /\ mem' = r.mem
             /\ opened' = r.opened
             /\ last' = Call("reset", <<>>, r, cx)
    /\ UNCHANGED <<unit, clears, heap, i2c_dev, StatusReg, DataReadyBit>>

\* void Adafruit_LTR390::enable(bool en)
Enable ==
    /\ Ready
    /\ \E en \in BOOLEAN :
          LET cx == Ctx(i2c_dev, {}, 0)
              r == enable(World, cx, en)
          IN /\ mem' = r.mem
             /\ opened' = r.opened
             /\ last' = Call("enable", <<B2I(en)>>, [r EXCEPT !.val = 0], cx)
    /\ UNCHANGED <<unit, clears, heap, i2c_dev, StatusReg, DataReadyBit>>

\* bool Adafruit_LTR390::enabled(void)
Enabled ==
    /\ Ready
    /\ LET cx == Ctx(i2c_dev, {}, 0)
           r == enabled(World, cx)
       IN last' = Call("enabled", <<>>, r, cx)
    /\ UNCHANGED <<unit, mem, clears, opened, heap, i2c_dev, StatusReg, DataReadyBit>>

\* bool Adafruit_LTR390::newDataAvailable(void)
NewDataAvailable ==
    /\ Ready
    /\ \E f \in ReadFaults, errv \in ReadErrorValues :
          LET cx == Ctx(i2c_dev, f, errv)
              r == RegisterBits_read(World, cx, LTR390_MAIN_STATUS, 1, 3, "read")
          IN last' = Call("newDataAvailable", <<>>, [r EXCEPT !.val = B2I(r.val # 0)], cx)
    /\ UNCHANGED <<unit, mem, clears, opened, heap, i2c_dev, StatusReg, DataReadyBit>>

\* void Adafruit_LTR390::setMode(ltr390_mode_t mode)
SetMode ==
    /\ Ready
    /\ \E v \in FieldInputs :
          LET cx == Ctx(i2c_dev, {}, 0)
              r == setMode(World, cx, v)
          IN /\ mem' = r.mem
             /\ opened' = r.opened
             /\ last' = Call("setMode", <<v>>, [r EXCEPT !.val = 0], cx)
    /\ UNCHANGED <<unit, clears, heap, i2c_dev, StatusReg, DataReadyBit>>

\* ltr390_mode_t Adafruit_LTR390::getMode(void)
GetMode ==
    /\ Ready
    /\ LET cx == Ctx(i2c_dev, {}, 0)
           r == getMode(World, cx)
       IN last' = Call("getMode", <<>>, r, cx)
    /\ UNCHANGED <<unit, mem, clears, opened, heap, i2c_dev, StatusReg, DataReadyBit>>

\* void Adafruit_LTR390::setGain(ltr390_gain_t gain)
SetGain ==
    /\ Ready
    /\ \E v \in FieldInputs :
          LET cx == Ctx(i2c_dev, {}, 0)
              r == setGain(World, cx, v)
          IN /\ mem' = r.mem
             /\ opened' = r.opened
             /\ last' = Call("setGain", <<v>>, [r EXCEPT !.val = 0], cx)
    /\ UNCHANGED <<unit, clears, heap, i2c_dev, StatusReg, DataReadyBit>>

\* ltr390_gain_t Adafruit_LTR390::getGain(void); in part_001 the function has
\* no return statement and its result is indeterminate
GetGain ==
    /\ Ready
    /\ \E u \in IndeterminateValues :
          LET cx == Ctx(i2c_dev, {}, 0)
              r == getGain(World, cx)
          IN last' = Call("getGain", <<>>,
                          IF unit = CurrentUnit THEN r ELSE [r EXCEPT !.val = u], cx)
    /\ UNCHANGED <<unit, mem, clears, opened, heap, i2c_dev, StatusReg, DataReadyBit>>

\* void Adafruit_LTR390::setResolution(ltr390_resolution_t res)
SetResolution ==
    /\ Ready
    /\ \E v \in FieldInputs :
          LET cx == Ctx(i2c_dev, {}, 0)
              r == setResolution(World, cx, v)
          IN /\ mem' = r.mem
             /\ opened' = r.opened
             /\ last' = Call("setResolution", <<v>>, [r EXCEPT !.val = 0], cx)
    /\ UNCHANGED <<unit, clears, heap, i2c_dev, StatusReg, DataReadyBit>>

\* ltr390_resolution_t Adafruit_LTR390::getResolution(void)
GetResolution ==
    /\ Ready
    /\ LET cx == Ctx(i2c_dev, {}, 0)
           r == getResolution(World, cx)
       IN last' = Call("getResolution", <<>>, r, cx)
    /\ UNCHANGED <<unit, mem, clears, opened, heap, i2c_dev, StatusReg, DataReadyBit>>

\* void Adafruit_LTR390::setThresholds(uint32_t lower, uint32_t higher)
SetThresholds ==
    /\ Ready
    /\ \E lower \in ThreshInputs, higher \in ThreshInputs :
          LET cx == Ctx(i2c_dev, {}, 0)
              r == setThresholds(World, cx, lower, higher)
          IN /\ mem' = r.mem
             /\ opened' = r.opened
             /\ last' = Call("setThresholds", <<lower, higher>>, [r EXCEPT !.val = 0], cx)
    /\ UNCHANGED <<unit, clears, heap, i2c_dev, StatusReg, DataReadyBit>>

\* void Adafruit_LTR390::configInterrupt(bool enable, ltr390_mode_t source,
\*                                       uint8_t persistance)
ConfigInterrupt ==
    /\ Ready
    /\ \E en \in BOOLEAN, source \in {LTR390_MODE_ALS, LTR390_MODE_UVS},
          persistance \in PersistInputs :
          LET cx == Ctx(i2c_dev, {}, 0)
              r == configInterrupt(World, cx, en, source, persistance)
          IN /\ mem' = r.mem
             /\ opened' = r.opened
             /\ last' = Call("configInterrupt", <<B2I(en), source, persistance>>,
                             [r EXCEPT !.val = 0], cx)
    /\ UNCHANGED <<unit, clears, heap, i2c_dev, StatusReg, DataReadyBit>>

\* the driver's lifecycle: identify, reset, enable, poll
Next ==
    \/ Begin
    \/ Reset
    \/ NewDataAvailable

Spec == Init /\ [][Next]_vars

\* the bitfield setters and getters of the main control, gain and rate registers
NextConfig ==
    \/ Enable
    \/ Enabled
    \/ SetMode
    \/ GetMode
    \/ SetGain
    \/ GetGain
    \/ SetResolution
    \/ GetResolution

SpecConfig == InitReady /\ [][NextConfig]_vars

\* the interrupt configuration
NextInterrupt ==
    \/ SetThresholds
    \/ ConfigInterrupt

SpecInterrupt == InitReady /\ [][NextInterrupt]_vars

\* the arguments of the calls of SpecFrame
FrameArgs ==
    {<<0>>, <<13>>, <<100, 500000>>, <<1048575, 100>>,
     <<1, LTR390_MODE_ALS, 2>>, <<0, LTR390_MODE_UVS, 18>>}

\* every setter, on few arguments
NextFrame ==
    \/ SetMode /\ last'.arg \in FrameArgs
    \/ SetGain /\ last'.arg \in FrameArgs
    \/ SetResolution /\ last'.arg \in FrameArgs
    \/ SetThresholds /\ last'.arg \in FrameArgs
    \/ ConfigInterrupt /\ last'.arg \in FrameArgs

SpecFrame == InitReady /\ [][NextFrame]_vars

(***************************************************************************)
(* Properties                                                              *)
(***************************************************************************)
Kinds(log) == [i \in 1 .. Len(log) |-> <<log[i][1], log[i][2]>>]
IsPrefix(a, b) == Len(a) <= Len(b) /\ a = SubSeq(b, 1, Len(a))

\* the bus operations of reset() inside the last call
ResetLog ==
    IF last.op = "reset" THEN last.log
    ELSE IF last.op = "begin" /\ Len(last.log) > 2 THEN SubSeq(last.log, 3, Len(last.log))
    ELSE <<>>

ResetOrder ==
    <<<<"read", LTR390_MAIN_CTRL>>, <<"write", LTR390_MAIN_CTRL>>, <<"delay", 0>>,
      <<"close", 0>>, <<"open", 0>>, <<"read", LTR390_MAIN_CTRL>>>>

\* C1: in every reset(), whatever the outcome of the soft-reset write, the bus
\* operations are: write the soft-reset bit = 1, a 10 ms delay, close the bus,
\* reopen the bus, and only then the re-read of the soft-reset bit; the call
\* never returns before the re-read.
C1_ResetOrder ==
    ResetLog # <<>> =>
        /\ Len(ResetLog) >= 6
        /\ SubSeq(Kinds(ResetLog), 1, 6) = ResetOrder
        /\ Field(ResetLog[2][3], 1, 4) = 1
        /\ ResetLog[3][3] = 10

\* C1, for the unit Adafruit_LTR390.cpp alone
C1_ResetOrder_CurrentUnit == unit = CurrentUnit => C1_ResetOrder

\* C2: begin() against a device whose part-id has top four bits other than 0xB
\* returns false, issues no bus write (no soft reset, no enable) after the
\* part-id read, and does not bind the status accessor.
C2_WrongPartId ==
    [][(/\ heap' # heap
        /\ last'.op = "begin"
        /\ (mem[LTR390_PART_ID] \div 16) # 11
        /\ (Len(last'.log) >= 2 => last'.log[2][4] = "ok"))
       => (/\ last'.ret = 0
           /\ Len(last'.log) <= 2
           /\ \A i \in 1 .. Len(last'.log) : last'.log[i][1] # "write"
           /\ mem' = mem
           /\ heap' \ heap = {<<"I2CDevice", i2c_dev'>>}
           /\ StatusReg' = StatusReg
           /\ DataReadyBit' = DataReadyBit)]_vars

C2_Witness ==
    /\ last.op = "begin"
    /\ last.log = <<<<"open", 0, 0, "ok">>, <<"read", LTR390_PART_ID, 43, "ok">>>>
    /\ last.ret = 0
    /\ heap = {<<"I2CDevice", i2c_dev>>}
    /\ DataReadyBit \in Uninitialized

\* C3: reset() returns true exactly when the soft-reset bit read last, after the
\* delay, is 0; a device that clears the bit gives true, a device that took the
\* write and never clears the bit gives false.
C3_ResetResult ==
    last.op = "reset" =>
        LET n == Len(last.log)
            e == last.log[n]
            w == last.log[2]
        IN /\ e[1] = "read" /\ e[2] = LTR390_MAIN_CTRL
           /\ last.log[n - 1][1] \in {"open", "delay"}
           /\ ((last.ret = 1) <=> (Field(e[3], 1, 4) = 0))
           /\ ((clears /\ e[4] = "ok") => last.ret = 1)
           /\ ((~clears /\ w[4] \in {"ok", "lost"} /\ e[4] = "ok") => last.ret = 0)

C3_Witness ==
    /\ last.op = "reset"
    /\ ~clears
    /\ last.ret = 0
    /\ \A i \in 1 .. Len(last.log) : last.log[i][4] = "ok"

C3_WitnessCleared ==
    /\ last.op = "reset"
    /\ clears
    /\ last.ret = 1
    /\ last.log[2][4] = "lost"

\* the bus operations of a begin() that runs to its end
BeginOrder ==
    <<<<"open", 0>>, <<"read", LTR390_PART_ID>>>>
    \o (IF unit = CurrentUnit THEN ResetOrder
        ELSE SubSeq(ResetOrder, 1, 3) \o SubSeq(ResetOrder, 6, 6))
    \o <<<<"read", LTR390_MAIN_CTRL>>, <<"write", LTR390_MAIN_CTRL>>,
         <<"read", LTR390_MAIN_CTRL>>>>

\* C4: begin() opens the bus, reads the part-id, resets, writes the enable bit,
\* re-reads it and binds the status accessor, in this order, and stops at the
\* first step that fails: it returns true exactly when the bus opened, the
\* part-id matched, reset() returned true and the enable bit read back as 1, and
\* only a call that returns true binds the status accessor.
C4_BeginOrder ==
    [][heap' # heap =>
        LET L == last'.log
            n == Len(L)
            R == IF unit = CurrentUnit THEN 8 ELSE 6
            openOk == L[1][4] = "ok"
            idOk == (L[2][3] \div 16) = 11
            rstOk == Field(L[R][3], 1, 4) = 0
            enOk == Field(L[R + 3][3], 1, 1) = 1
        IN /\ last'.op = "begin"
           /\ n >= 1
           /\ IsPrefix(Kinds(L), BeginOrder)
           /\ IF ~openOk THEN n = 1 /\ last'.ret = 0
              ELSE IF ~idOk THEN n = 2 /\ last'.ret = 0
              ELSE IF ~rstOk THEN n = R /\ last'.ret = 0
              ELSE /\ n = R + 3
                   /\ Field(L[R + 2][3], 1, 1) = 1
                   /\ ((last'.ret = 1) <=> enOk)
           /\ IF last'.ret = 1
              THEN /\ <<"I2CRegister", StatusReg'>> \in heap' \ heap
                   /\ <<"I2CRegisterBits", DataReadyBit'>> \in heap' \ heap
              ELSE UNCHANGED <<StatusReg, DataReadyBit>>]_vars

C4_Witness ==
    /\ last.op = "begin"
    /\ last.ret = 1
    /\ Len(last.log) = Len(BeginOrder)
    /\ <<"I2CRegisterBits", DataReadyBit>> \in heap

\* C5: on a faithful device a getter called right after its setter returns the
\* value written, cut to the width of the field: getGain() after setGain(v)
\* returns v & 7, getResolution() after setResolution(v) returns v & 7,
\* getMode() after setMode(v) returns v & 1, enabled() after enable(b) returns b.
C5_RoundTrip ==
    [][/\ ((last.op = "setGain" /\ last'.op = "getGain")
              => last'.ret = last.arg[1] % 8)
       /\ ((last.op = "setResolution" /\ last'.op = "getResolution")
              => last'.ret = last.arg[1] % 8)
       /\ ((last.op = "setMode" /\ last'.op = "getMode")
              => last'.ret = last.arg[1] % 2)
       /\ ((last.op = "enable" /\ last'.op = "enabled")
              => last'.ret = last.arg[1])]_vars

\* C5, for the unit Adafruit_LTR390.cpp alone
C5_RoundTrip_CurrentUnit ==
    [][unit = CurrentUnit =>
        /\ ((last.op = "setGain" /\ last'.op = "getGain")
               => last'.ret = last.arg[1] % 8)
        /\ ((last.op = "setResolution" /\ last'.op = "getResolution")
               => last'.ret = last.arg[1] % 8)
        /\ ((last.op = "setMode" /\ last'.op = "getMode")
               => last'.ret = last.arg[1] % 2)
        /\ ((last.op = "enable" /\ last'.op = "enabled")
               => last'.ret = last.arg[1])]_vars

\* the registers a setter names
Named(op) ==
    CASE op = "setMode" -> {LTR390_MAIN_CTRL}
      [] op = "setGain" -> {LTR390_GAIN}
      [] op = "setResolution" -> {LTR390_MEAS_RATE}
      [] op = "setThresholds" ->
            (LTR390_THRESH_UP .. LTR390_THRESH_UP + 2)
            \cup (LTR390_THRESH_LOW .. LTR390_THRESH_LOW + 2)
      [] op = "configInterrupt" -> {LTR390_INT_CFG, LTR390_INT_PST}
      [] OTHER -> {}

\* C6: after a successful begin(), in any sequence of setMode, setGain,
\* setResolution, setThresholds and configInterrupt on a faithful device, every
\* call keeps the enable bit (bit 1) and the soft-reset bit (bit 4) of the main
\* control register, the bits of the rate register outside 4-6 and the bits
\* of the gain register outside 0-2, and changes no register but the ones it
\* names.
C6_Frame ==
    [][/\ mem'[LTR390_MAIN_CTRL] % 8 = mem[LTR390_MAIN_CTRL] % 8
       /\ mem'[LTR390_MAIN_CTRL] \div 16 = mem[LTR390_MAIN_CTRL] \div 16
       /\ mem'[LTR390_MEAS_RATE] % 16 = mem[LTR390_MEAS_RATE] % 16
       /\ mem'[LTR390_MEAS_RATE] \div 128 = mem[LTR390_MEAS_RATE] \div 128
       /\ mem'[LTR390_GAIN] \div 8 = mem[LTR390_GAIN] \div 8
       /\ \A a \in Addrs \ Named(last'.op) : mem'[a] = mem[a]]_vars

\* every setter has acted; the enable bit and the bits around the fields are
\* the ones begin() left
C6_Witness ==
    /\ last.op = "configInterrupt"
    /\ mem[LTR390_MAIN_CTRL] = 10
    /\ mem[LTR390_GAIN] = 160
    /\ mem[LTR390_MEAS_RATE] = 133
    /\ mem[LTR390_THRESH_LOW] = 255
    /\ mem[LTR390_INT_PST] = 37

\* C7: configInterrupt(enable, source, persistence) leaves the interrupt
\* configuration register with bit 2 = enable and bits 4-5 = 1 for the ambient
\* source, 3 for the UV source, and the persistence register with bits 4-7 =
\* persistence & 0xF; the other bits of both registers keep their values.
C7_ConfigInterrupt ==
    [][last'.op = "configInterrupt" =>
        LET a == last'.arg
            cfg == mem'[LTR390_INT_CFG]
            pst == mem'[LTR390_INT_PST]
        IN /\ (cfg \div 4) % 2 = a[1]
           /\ (cfg \div 16) % 4 = (IF a[2] = LTR390_MODE_ALS THEN 1 ELSE 3)
           /\ pst \div 16 = a[3] % 16
           /\ cfg % 4 = mem[LTR390_INT_CFG] % 4
           /\ (cfg \div 8) % 2 = (mem[LTR390_INT_CFG] \div 8) % 2
           /\ cfg \div 64 = mem[LTR390_INT_CFG] \div 64
           /\ pst % 16 = mem[LTR390_INT_PST] % 16]_vars

\* configInterrupt(true, ambient, 2) on registers that held 0xA5
C7_Witness ==
    /\ last.op = "configInterrupt"
    /\ last.arg = <<1, LTR390_MODE_ALS, 2>>
    /\ mem[LTR390_INT_CFG] = 149
    /\ mem[LTR390_INT_PST] = 37

\* configInterrupt(true, UV, 0) on registers that held 0xA5
C7_WitnessUV ==
    /\ last.op = "configInterrupt"
    /\ last.arg = <<1, LTR390_MODE_UVS, 0>>
    /\ mem[LTR390_INT_CFG] = 181
    /\ mem[LTR390_INT_PST] = 5

\* C8: setThresholds(lower, upper) leaves lower in the three bytes at 0x24 and
\* upper in the three bytes at 0x21, least significant byte first, whatever
\* the order of the two values: for lower, upper < 2^20 the registers read
\* back as exactly lower and upper.
C8_Thresholds ==
    last.op = "setThresholds" =>
        /\ \A a \in Named("setThresholds") : mem[a] \in 0 .. 255
        /\ mem[LTR390_THRESH_LOW] + 256 * mem[LTR390_THRESH_LOW + 1]
              + 65536 * mem[LTR390_THRESH_LOW + 2] = last.arg[1]
        /\ mem[LTR390_THRESH_UP] + 256 * mem[LTR390_THRESH_UP + 1]
              + 65536 * mem[LTR390_THRESH_UP + 2] = last.arg[2]

\* setThresholds(100, 500000): 0x24.. = 64 00 00, 0x21.. = 20 A1 07
C8_Witness ==
    /\ last.op = "setThresholds"
    /\ last.arg = <<100, 500000>>
    /\ mem[LTR390_THRESH_LOW] = 100
    /\ mem[LTR390_THRESH_LOW + 1] = 0
    /\ mem[LTR390_THRESH_UP] = 32
    /\ mem[LTR390_THRESH_UP + 1] = 161
    /\ mem[LTR390_THRESH_UP + 2] = 7

\* a lower threshold above the upper one is written as given
C8_WitnessUnordered ==
    /\ last.op = "setThresholds"
    /\ last.arg = <<1048575, 100>>
    /\ mem[LTR390_THRESH_LOW + 2] = 15
    /\ mem[LTR390_THRESH_UP] = 100

\* C9: after any sequence of begin() calls the handle owns exactly one bus
\* device and at most one status register / bitfield accessor pair, and nothing
\* else that begin() allocated remains allocated.
C9_NoLeak ==
    i2c_dev \notin Uninitialized =>
        heap \subseteq {<<"I2CDevice", i2c_dev>>, <<"I2CRegister", StatusReg>>,
                        <<"I2CRegisterBits", DataReadyBit>>}

\* C10: a bus transaction that fails inside begin(), other than the soft-reset
\* write, makes begin() return false; in particular begin() never returns
\* true when the read-back of the enable bit did not complete.
C10_FaultFailsBegin ==
    (/\ last.op = "begin"
     /\ \E i \in 1 .. Len(last.log) :
            /\ last.log[i][4] = "fail"
            /\ ~(last.log[i][1] = "write" /\ Field(last.log[i][3], 1, 4) = 1))
    => last.ret = 0

\* C10, the read-back of the enable bit alone
C10_ReadbackFault ==
    (last.op = "begin" /\ Len(last.log) = Len(BeginOrder)
        /\ last.log[Len(last.log)][4] = "fail") => last.ret = 0

====
